---- MODULE Spec2Model ----
(***************************************************************************)
(* A model of pragmash's syntax front end (src/syntax.go), of its          *)
(* condition evaluator (src/condition.go) and of the library functions     *)
(* Factorial, Mod, Escape and Unescape (src/std_math.go).                  *)
(*                                                                         *)
(* Text is a sequence of code points (Go runes), so that escapes, which    *)
(* compute a rune from digits, are modelled by what they compute.  A Go    *)
(* error is a string, "" standing for nil.                                 *)
(***************************************************************************)
EXTENDS Integers, Sequences, FiniteSets, TLC

(***************************************************************************)
(* Runes named by the source.                                              *)
(***************************************************************************)
ChDQuote == 34
ChSQuote == 39
ChLParen == 40
ChRParen == 41
ChBackslash == 92
ChHash == 35
ChSpace == 32
ChLBrace == 123
ChRBrace == 125
ChZero == 48
ChEight == 56

\* The Go errors of the parser ("" is nil).
ErrNone == ""
ErrEOF == "io.EOF"
ErrMissingOpenCurlyBrace == "missing open curly brace"
ErrUnexpectedCloseParen == "unexpected ')'"
ErrEscapeCodeUnderflow == "escape code is too short"
ErrMissingEndQuote == "missing string terminator"
ErrMissingWhitespace == "ErrMissingWhitespace"
ErrMissingCloseParen == "ErrMissingCloseParen"
ErrEmptyParens == "ErrEmptyParens"
ErrInvalidEscape == "invalid escape character"
ErrSyntax == "strconv: invalid syntax"
ErrRange == "strconv: value out of range"

\* "if", "else", "while", "try", "for", "def"
BlockInitiatingKeywords ==
  << <<105, 102>>, <<101, 108, 115, 101>>, <<119, 104, 105, 108, 101>>,
     <<116, 114, 121>>, <<102, 111, 114>>, <<100, 101, 102>> >>

\* unicode.IsSpace: the White_Space property.
IsSpace(r) ==
  \/ r \in 9..13
  \/ r \in {32, 133, 160, 5760, 8232, 8233, 8239, 8287, 12288}
  \/ r \in 8192..8202

\* unicode.IsDigit: category Nd.  The ASCII digits and four of the other
\* decimal-digit blocks (Arabic-Indic, Extended Arabic-Indic, Devanagari,
\* Fullwidth) stand for the table.
IsDigit(r) ==
  \/ r \in 48..57
  \/ r \in 1632..1641
  \/ r \in 1776..1785
  \/ r \in 2406..2415
  \/ r \in 65296..65305

\* bytes.Buffer.WriteRune followed by String(): a rune that is not a valid
\* code point is written as U+FFFD.  (A Go release whose WriteRune compares
\* the rune as a signed number writes the low byte of a negative rune
\* instead; no property below depends on what a negative rune becomes.)
WriteRune(r) ==
  IF r < 0 \/ r > 1114111 \/ r \in 55296..57343 THEN 65533 ELSE r

\* The value of a hexadecimal digit, -1 for any other rune.
HexDigit(r) ==
  IF r \in 48..57 THEN r - 48
  ELSE IF r \in 97..102 THEN r - 87
  ELSE IF r \in 65..70 THEN r - 55
  ELSE -1

RECURSIVE ParseDigits(_, _, _)
\* strconv.ParseUint's accumulation of digits already known to be valid.
ParseDigits(s, base, acc) ==
  IF s = <<>> THEN acc
  ELSE ParseDigits(Tail(s), base, acc * base + HexDigit(Head(s)))

\* rune(res) for the result of strconv.ParseUint(str, 16, 32): the conversion
\* of a uint64 below 2^32 to int32 wraps a value of 2^31 or more to a
\* negative one.
RuneOfHex(s) ==
  IF Len(s) = 8 /\ HexDigit(s[1]) >= 8
    THEN ParseDigits(Tail(s), 16, HexDigit(s[1]) - 16)
    ELSE ParseDigits(s, 16, 0)

readNumericEscape(b, charCount) ==
  IF Len(b) < charCount
    THEN [r |-> 0, err |-> ErrEscapeCodeUnderflow, rest |-> <<>>]
    ELSE LET str == SubSeq(b, 1, charCount)
             rest == SubSeq(b, charCount + 1, Len(b))
         IN IF \E i \in 1..charCount : HexDigit(str[i]) < 0
              THEN [r |-> 0, err |-> ErrSyntax, rest |-> rest]
              ELSE [r |-> RuneOfHex(str), err |-> ErrNone, rest |-> rest]

RECURSIVE OctalRunes(_, _)
\* The loop of readOctalEscape: the longest prefix of b, of at most n runes,
\* made of the digits '0'..'7'.
OctalRunes(b, n) ==
  IF n = 0 \/ b = <<>> THEN <<>>
  ELSE IF Head(b) >= ChZero /\ Head(b) < ChEight
    THEN <<Head(b)>> \o OctalRunes(Tail(b), n - 1)
    ELSE <<>>

readOctalEscape(b) ==
  LET runes == OctalRunes(b, 3)
      rest == SubSeq(b, Len(runes) + 1, Len(b))
      res == ParseDigits(runes, 8, 0)
  IN IF Len(runes) = 0
       THEN [r |-> 0, err |-> ErrEscapeCodeUnderflow, rest |-> rest]
     ELSE IF res > 255
       THEN [r |-> 0, err |-> ErrRange, rest |-> rest]
     ELSE [r |-> res, err |-> ErrNone, rest |-> rest]

readEscapeSequence(buffer) ==
  IF buffer = <<>>
    THEN [r |-> 0, err |-> ErrEscapeCodeUnderflow, rest |-> <<>>]
    ELSE
      LET firstRune == Head(buffer)
          rest == Tail(buffer)
          ok(r) == [r |-> r, err |-> ErrNone, rest |-> rest]
      IN CASE firstRune \in {ChLParen, ChRParen, 63, ChSQuote, ChDQuote,
                             ChSpace, ChBackslash} -> ok(firstRune)
           [] firstRune = 97 -> ok(7)
           [] firstRune = 98 -> ok(8)
           [] firstRune = 102 -> ok(12)
           [] firstRune = 110 -> ok(10)
           [] firstRune = 114 -> ok(13)
           [] firstRune = 116 -> ok(9)
           [] firstRune = 118 -> ok(11)
           [] firstRune = 120 -> readNumericEscape(rest, 2)
           [] firstRune = 117 -> readNumericEscape(rest, 4)
           [] firstRune = 85 -> readNumericEscape(rest, 8)
           [] OTHER ->
                IF ~IsDigit(firstRune) \/ firstRune = 56 \/ firstRune = 57
                  THEN [r |-> 0, err |-> ErrInvalidEscape, rest |-> rest]
                  ELSE readOctalEscape(buffer)

\* A string literal token and a nested command token.  IsCommand stands for
\* Command != nil.
Literal(text, bare) ==
  [Command |-> <<>>, Text |-> text, Bare |-> bare, IsCommand |-> FALSE]

NestedToken(tokens) ==
  [Command |-> tokens, Text |-> <<>>, Bare |-> FALSE, IsCommand |-> TRUE]

RECURSIVE QuotedLoop(_, _, _)
QuotedLoop(buffer, quote, str) ==
  IF buffer = <<>>
    THEN [str |-> <<>>, err |-> ErrMissingEndQuote, rest |-> <<>>]
  ELSE IF Head(buffer) = quote
    THEN [str |-> str, err |-> ErrNone, rest |-> Tail(buffer)]
  ELSE IF Head(buffer) = ChBackslash
    THEN LET seq == readEscapeSequence(Tail(buffer))
         IN IF seq.err # ErrNone
              THEN [str |-> <<>>, err |-> seq.err, rest |-> seq.rest]
              ELSE QuotedLoop(seq.rest, quote, Append(str, WriteRune(seq.r)))
  ELSE QuotedLoop(Tail(buffer), quote, Append(str, Head(buffer)))

\* A readQuotedString that ends every string at a double quote.
readQuotedStringDouble(buffer, quote) == QuotedLoop(buffer, ChDQuote, <<>>)

\* Called with the opening quote already consumed.
readQuotedString(buffer, quote) == QuotedLoop(buffer, quote, <<>>)

\* A readBareString that forgets to clear `bare`.
BareKept(bare) == bare

\* The value of `bare` after an escape has been decoded (line 228).
BareAfterEscape(bare) == FALSE

RECURSIVE BareLoop(_, _, _)
BareLoop(buffer, str, bare) ==
  IF buffer = <<>>
    THEN [token |-> Literal(str, bare), err |-> ErrNone, rest |-> <<>>]
  ELSE IF IsSpace(Head(buffer)) \/ Head(buffer) = ChRParen
    THEN [token |-> Literal(str, bare), err |-> ErrNone, rest |-> buffer]
  ELSE IF Head(buffer) = ChBackslash
    THEN LET seq == readEscapeSequence(Tail(buffer))
         IN IF seq.err # ErrNone
              THEN [token |-> Literal(<<>>, FALSE), err |-> seq.err,
                    rest |-> seq.rest]
              ELSE BareLoop(seq.rest, Append(str, WriteRune(seq.r)),
                            BareAfterEscape(bare))
  ELSE BareLoop(Tail(buffer), Append(str, Head(buffer)), bare)

readBareString(buffer) == BareLoop(buffer, <<>>, TRUE)

RECURSIVE SkipSpace(_)
SkipSpace(b) ==
  IF b # <<>> /\ IsSpace(Head(b)) THEN SkipSpace(Tail(b)) ELSE b

\* A readSpace that reports whitespace whether or not it read any.
readSpaceAlwaysTrue(b) == [res |-> TRUE, rest |-> SkipSpace(b)]

\* readSpace: res is the returned bool, rest the buffer afterwards.
readSpace(b) ==
  IF Len(b) = 0 THEN [res |-> TRUE, rest |-> b]
  ELSE [res |-> Len(SkipSpace(b)) < Len(b), rest |-> SkipSpace(b)]


(***************************************************************************)
(* The inputs.  A logical line is an optional opening word, at most        *)
(* MaxPieces pieces and an optional closing word; the pieces are the runes *)
(* that steer the parser and the words it compares tokens with.            *)
(***************************************************************************)
MaxPieces == 3
MaxNum == 2

\* "if", "}", "{", " ", "(", ")", the two quotes, a backslash, "a"
Pieces ==
  { <<105, 102>>, <<ChRBrace>>, <<ChLBrace>>, <<ChSpace>>, <<ChLParen>>,
    <<ChRParen>>, <<ChDQuote>>, <<ChSQuote>>, <<ChBackslash>>, <<97>> }

\* "", "} ", "if ", "(", "} else", "(a "
Openings ==
  { <<>>, <<ChRBrace, ChSpace>>, <<105, 102, ChSpace>>, <<ChLParen>>,
    <<ChRBrace, ChSpace, 101, 108, 115, 101>>, <<ChLParen, 97, ChSpace>> }

\* "", " {", ")"
Closings == { <<>>, <<ChSpace, ChLBrace>>, <<ChRParen>> }

RECURSIVE Strings(_, _)
\* The sequences of exactly n runes of the set a.
Strings(a, n) ==
  IF n = 0 THEN { <<>> }
  ELSE { <<r>> \o s : r \in a, s \in Strings(a, n - 1) }

StringsUpTo(a, n) == UNION { Strings(a, k) : k \in 0..n }

RECURSIVE LinesOf(_)
\* The concatenations of exactly n pieces.
LinesOf(n) ==
  IF n = 0 THEN { <<>> }
  ELSE { p \o l : p \in Pieces, l \in LinesOf(n - 1) }

Lines ==
  { o \o l \o c : o \in Openings, c \in Closings,
                  l \in UNION { LinesOf(n) : n \in 0..MaxPieces } }

\* What the reader may return after a line that was skipped.
FollowLines == { <<ChHash>>, <<97>>, <<ChRBrace>> }

(***************************************************************************)
(* The parser as a state machine.                                          *)
(*   rd      what Reader.ReadLine returns to the pending call              *)
(*   buffer  the unread runes of parseLine's bytes.Buffer                  *)
(*   sl      parseLine's SyntaxLine (NilLine once an error is returned)    *)
(*   stack   the `tokens` slices of the readNestedCommand calls in         *)
(*           progress, outermost first                                     *)
(*   pc      the position in the code                                      *)
(*   err     the returned error                                            *)
(*   raw     line.Tokens as processCurlyBraces received it                 *)
(***************************************************************************)
VARIABLES rd, buffer, sl, stack, pc, err, raw

syntaxVars == <<rd, buffer, sl, stack, pc, err, raw>>

(***************************************************************************)
(* The condition evaluator's state.                                        *)
(*   t       the tokens given to ConditionFromTokens                       *)
(*   outs    what the Runnable made from each token returns when run       *)
(*   cond    the Runnable that ConditionFromTokens returned                *)
(*   cpc     the position in the code                                      *)
(*   i, str  the locals of Condition.Run                                   *)
(*   ran     the operands run so far, in the order they were run           *)
(*   cres    what Condition.Run returned                                   *)
(*   res     what the Run method of cond returned                          *)
(***************************************************************************)
VARIABLES t, outs, cond, cpc, i, str, ran, cres, res

condVars == <<t, outs, cond, cpc, i, str, ran, cres, res>>

(***************************************************************************)
(* The state of a call of StdMath.Factorial or StdMath.Mod.                *)
(*   fn            Factorial's argument n                                  *)
(*   fi, fres      the locals i and res of Factorial's loop                *)
(*   num, modulus  Mod's arguments                                         *)
(*   mpc           the position in the code                                *)
(*   mret          what the call returned, or the panic that ended it      *)
(***************************************************************************)
VARIABLES fn, fi, fres, num, modulus, mpc, mret

mathVars == <<fn, fi, fres, num, modulus, mpc, mret>>

(***************************************************************************)
(* The state of StdString.Escape followed by StdString.Unescape.           *)
(*   arg        the string given to Escape                                 *)
(*   escaped    what Escape returned                                       *)
(*   unescaped  what Unescape returned for it                              *)
(*   spc        the position in the code                                   *)
(***************************************************************************)
VARIABLES arg, escaped, unescaped, spc

stringVars == <<arg, escaped, unescaped, spc>>

libVars == <<mathVars, stringVars>>

vars == <<syntaxVars, condVars, libVars>>

NilLine ==
  [BlockOpen |-> FALSE, BlockClose |-> FALSE, Tokens |-> <<>>, Number |-> 0]

SyntaxInit ==
  /\ rd \in [line : Lines, num : {1}, err : {ErrNone}]
              \cup { [line |-> <<>>, num |-> 0, err |-> ErrEOF] }
  /\ buffer = <<>>
  /\ sl = NilLine
  /\ stack = <<>>
  /\ pc = "ReadSyntaxLine"
  /\ err = ErrNone
  /\ raw = <<>>

Depth == Len(stack)

\* A readNestedCommand that returns io.EOF as it is.
PropagateUnchanged(e, d) == e

RECURSIVE Propagate(_, _)
\* The error parseLine returns when readNextToken returns e to its caller
\* at nesting depth d.  Each readNestedCommand on the way turns io.EOF into
\* ErrMissingCloseParen and returns any other error as it is (the error a
\* nested call returns is never ErrUnexpectedCloseParen).
Propagate(e, d) ==
  IF d = 0 THEN e
  ELSE Propagate(IF e = ErrEOF THEN ErrMissingCloseParen ELSE e, d - 1)

\* Every function returns (nil, e): the parse ends.
Fail(e) ==
  /\ pc' = "done"
  /\ err' = e
  /\ sl' = NilLine
  /\ UNCHANGED <<rd, raw>>

\* A token put in front of the tokens read before it.
PrependToken(tokens, token) == <<token>> \o tokens

\* append(tokens, *token)
AppendToken(tokens, token) == Append(tokens, token)

\* The caller of readNextToken appends the token: parseLine to line.Tokens,
\* readNestedCommand to its tokens.
Push(token) ==
  IF Depth = 0
    THEN /\ sl' = [sl EXCEPT !.Tokens = AppendToken(@, token)]
         /\ stack' = stack
    ELSE /\ stack' = [stack EXCEPT ![Depth] = AppendToken(@, token)]
         /\ sl' = sl

\* The end of readNestedCommand's loop (lines 178-181), rest being the
\* buffer at that point: the innermost call returns, and what it returns is
\* appended by the caller of the readNextToken that made the call.  Once an
\* error is returned, stack keeps the calls whose ')' had not been read.
EndNested(rest) ==
  LET tokens == stack[Depth]
      outer == SubSeq(stack, 1, Depth - 1)
  IN IF Len(tokens) = 0
       THEN /\ Fail(Propagate(ErrEmptyParens, Depth - 1))
            /\ buffer' = rest
            /\ stack' = outer
       ELSE /\ buffer' = rest
            /\ pc' = "afterToken"
            /\ IF Depth = 1
                 THEN /\ sl' = [sl EXCEPT
                               !.Tokens = AppendToken(@, NestedToken(tokens))]
                      /\ stack' = outer
                 ELSE /\ stack' = [outer EXCEPT ![Depth - 1] =
                                     AppendToken(@, NestedToken(tokens))]
                      /\ sl' = sl
            /\ UNCHANGED <<rd, err, raw>>

ReadSyntaxLine ==
  /\ UNCHANGED <<condVars, libVars>>
  /\ pc = "ReadSyntaxLine"
  /\ IF rd.err # ErrNone
       THEN /\ Fail(rd.err)
            /\ UNCHANGED <<buffer, stack>>
     ELSE IF Len(rd.line) = 0 \/ rd.line[1] = ChHash
       THEN /\ \/ /\ rd.num > 0 /\ rd.num < MaxNum
                  /\ rd' \in [line : FollowLines, num : {rd.num + 1},
                              err : {ErrNone}]
               \/ rd' = [line |-> <<>>, num |-> 0, err |-> ErrEOF]
            /\ UNCHANGED <<buffer, sl, stack, pc, err, raw>>
     ELSE \* parseLine, up to its loop
          /\ sl' = [BlockOpen |-> FALSE, BlockClose |-> FALSE,
                    Tokens |-> <<>>, Number |-> rd.num]
          /\ buffer' = rd.line
          /\ pc' = "readNextToken"
          /\ UNCHANGED <<rd, stack, err, raw>>

\* readNextToken at the end of the input: only a nested command calls it
\* there, parseLine's loop does not.
ReadAtEOF ==
  /\ UNCHANGED <<condVars, libVars>>
  /\ pc = "readNextToken"
  /\ buffer = <<>>
  /\ Fail(Propagate(ErrEOF, Depth))
  /\ UNCHANGED <<buffer, stack>>

ReadQuoted ==
  /\ UNCHANGED <<condVars, libVars>>
  /\ pc = "readNextToken"
  /\ buffer # <<>>
  /\ Head(buffer) \in {ChDQuote, ChSQuote}
  /\ LET q == readQuotedString(Tail(buffer), Head(buffer))
     IN /\ buffer' = q.rest
        /\ IF q.err # ErrNone
             THEN /\ Fail(Propagate(q.err, Depth))
                  /\ UNCHANGED stack
             ELSE /\ Push(Literal(q.str, FALSE))
                  /\ pc' = "afterToken"
                  /\ UNCHANGED <<rd, err, raw>>

\* case '(': readNestedCommand up to its loop.
OpenNested ==
  /\ UNCHANGED <<condVars, libVars>>
  /\ pc = "readNextToken"
  /\ buffer # <<>>
  /\ Head(buffer) = ChLParen
  /\ stack' = Append(stack, <<>>)
  /\ buffer' = readSpace(Tail(buffer)).rest
  /\ UNCHANGED <<rd, sl, pc, err, raw>>

\* case ')': ErrUnexpectedCloseParen, which ends parseLine and which a
\* nested command takes as the end of its loop.
CloseParen ==
  /\ UNCHANGED <<condVars, libVars>>
  /\ pc = "readNextToken"
  /\ buffer # <<>>
  /\ Head(buffer) = ChRParen
  /\ IF Depth = 0
       THEN /\ Fail(ErrUnexpectedCloseParen)
            /\ buffer' = Tail(buffer)
            /\ UNCHANGED stack
       ELSE EndNested(Tail(buffer))

ReadBare ==
  /\ UNCHANGED <<condVars, libVars>>
  /\ pc = "readNextToken"
  /\ buffer # <<>>
  /\ Head(buffer) \notin {ChDQuote, ChSQuote, ChLParen, ChRParen}
  /\ LET b == readBareString(buffer)
     IN /\ buffer' = b.rest
        /\ IF b.err # ErrNone
             THEN /\ Fail(Propagate(b.err, Depth))
                  /\ UNCHANGED stack
             ELSE /\ Push(b.token)
                  /\ pc' = "afterToken"
                  /\ UNCHANGED <<rd, err, raw>>

\* What follows a token: in parseLine lines 74-79 and the loop test, in
\* readNestedCommand lines 163-176.
AfterToken ==
  /\ UNCHANGED <<condVars, libVars>>
  /\ pc = "afterToken"
  /\ IF Depth > 0 /\ buffer # <<>> /\ Head(buffer) = ChRParen
       THEN EndNested(Tail(buffer))
       ELSE LET s == readSpace(buffer)
            IN /\ buffer' = s.rest
               /\ IF ~s.res
                    THEN /\ Fail(ErrMissingWhitespace)
                         /\ UNCHANGED stack
                    ELSE /\ pc' = IF Depth = 0 /\ s.rest = <<>>
                                    THEN "processCurlyBraces"
                                    ELSE "readNextToken"
                         /\ UNCHANGED <<rd, sl, stack, err, raw>>

IsKeyword(token) ==
  /\ token.Bare
  /\ \E k \in 1..Len(BlockInitiatingKeywords) :
       token.Text = BlockInitiatingKeywords[k]

\* A block-close test that does not look at Bare.
IsCloseBraceAnyText(token) == token.Text = <<ChRBrace>>

\* l.Tokens[0].Text == "}" && l.Tokens[0].Bare
IsCloseBrace(token) == token.Text = <<ChRBrace>> /\ token.Bare

\* l.Tokens[len(l.Tokens)-1].Text != "{" is false
IsOpenBrace(token) == token.Text = <<ChLBrace>>

\* l.Tokens[1:]
StripClose(tokens) == Tail(tokens)

\* A slice that drops the first token instead of the last.
StripOpenFirst(tokens) == Tail(tokens)

\* l.Tokens[:len(l.Tokens)-1]
StripOpen(tokens) == SubSeq(tokens, 1, Len(tokens) - 1)

processCurlyBraces ==
  /\ UNCHANGED <<condVars, libVars>>
  /\ pc = "processCurlyBraces"
  /\ raw' = sl.Tokens
  /\ pc' = "done"
  /\ UNCHANGED <<rd, buffer, stack>>
  /\ IF Len(sl.Tokens) = 0
       THEN /\ err' = "panic: there should always be tokens here"
            /\ sl' = NilLine
       ELSE
         LET close == IsCloseBrace(sl.Tokens[1])
             t1 == IF close THEN StripClose(sl.Tokens) ELSE sl.Tokens
             isOpenKeyword == Len(t1) > 0 /\ IsKeyword(t1[1])
         IN IF isOpenKeyword /\ ~IsOpenBrace(t1[Len(t1)])
              THEN /\ err' = ErrMissingOpenCurlyBrace
                   /\ sl' = NilLine
              ELSE /\ err' = ErrNone
                   /\ sl' = [sl EXCEPT
                        !.BlockClose = close,
                        !.BlockOpen = isOpenKeyword,
                        !.Tokens = IF isOpenKeyword THEN StripOpen(t1)
                                   ELSE t1]

Next ==
  \/ ReadSyntaxLine
  \/ ReadAtEOF
  \/ ReadQuoted
  \/ OpenNested
  \/ CloseParen
  \/ ReadBare
  \/ AfterToken
  \/ processCurlyBraces


(***************************************************************************)
(* The condition evaluator (src/condition.go).  A Value is its string; a   *)
(* result is the pair of a Value and a Breakout that a Run method returns,  *)
(* bo = "" standing for a nil Breakout and val being unused when bo is not *)
(* nil.                                                                    *)
(***************************************************************************)
MaxTokens == 3

\* Value's helpers: a boolean is the empty string or a fixed non-empty one.
NewValueBool(b) == IF b THEN "true" ELSE ""

emptyValue == ""

ValueBool(v) == v # ""

NoBreakout == ""

Returned(v) == [val |-> v, bo |-> NoBreakout]

Broke(bo) == [val |-> "", bo |-> bo]

CondStrings == {"not", "a", "b"}

\* What running an operand can return.
Outcomes ==
  { Returned(v) : v \in {"", "a", "b"} } \cup { Broke(b) : b \in {"error", "break"} }

RECURSIVE TokenLists(_)
TokenLists(n) ==
  IF n = 0 THEN { <<>> }
  ELSE { <<[String |-> s]>> \o l : s \in CondStrings, l \in TokenLists(n - 1) }

\* token.Runnable(context): the operand made from a token, with what its Run
\* returns.
Runnable(token, out) == [token |-> token, out |-> out]

\* A ConditionFromTokens that fills the operands from the first token on,
\* whether or not the marker was there.
OperandTokenUnshifted(tk, k, shift) == tk[k]

\* The token operand k is made from: t[i] for c[i-1] behind a `not` (shift
\* 1, line 61), t[i] for c[i] otherwise (shift 0, line 68).
OperandToken(tk, k, shift) == tk[k + shift]

ConditionFromTokens(tk, o) ==
  IF Len(tk) # 0 /\ tk[1].String = "not"
    THEN [neg |-> TRUE,
          c |-> [k \in 1..(Len(tk) - 1) |->
                   Runnable(OperandToken(tk, k, 1), o[k + 1])]]
    ELSE [neg |-> FALSE,
          c |-> [k \in 1..Len(tk) |-> Runnable(OperandToken(tk, k, 0), o[k])]]

NoCond == [neg |-> FALSE, c |-> <<>>]

CondInit ==
  /\ t \in UNION { TokenLists(n) : n \in 0..MaxTokens }
  /\ outs \in [1..Len(t) -> Outcomes]
  /\ cond = NoCond
  /\ cpc = "ConditionFromTokens"
  /\ i = 0
  /\ str = ""
  /\ ran = <<>>
  /\ cres = Returned("")
  /\ res = Returned("")

FromTokens ==
  /\ UNCHANGED <<syntaxVars, libVars>>
  /\ cpc = "ConditionFromTokens"
  /\ cond' = ConditionFromTokens(t, outs)
  /\ cpc' = "Run"
  /\ UNCHANGED <<t, outs, i, str, ran, cres, res>>

\* Condition.Run returns v: to the caller of a Condition, to line 47 of a
\* NotCondition.
Return(v) ==
  /\ cres' = v
  /\ IF cond.neg
       THEN cpc' = "NotRun" /\ res' = res
       ELSE cpc' = "done" /\ res' = v

\* A comparison that never finds a difference.
DiffersNever(val, first) == FALSE

\* A comparison written == for !=.
DiffersInverted(val, first) == val = first

\* val.String() != str
Differs(val, first) == val # first

\* Condition.Run, lines 12-25.
Run ==
  /\ UNCHANGED <<syntaxVars, libVars>>
  /\ cpc = "Run"
  /\ UNCHANGED <<t, outs, cond>>
  /\ IF Len(cond.c) = 0
       THEN /\ Return(Returned(NewValueBool(TRUE)))
            /\ UNCHANGED <<i, str, ran>>
     ELSE IF Len(cond.c) = 1
       THEN /\ ran' = Append(ran, 1)
            /\ Return(cond.c[1].out)
            /\ UNCHANGED <<i, str>>
     ELSE /\ ran' = Append(ran, 1)
          /\ IF cond.c[1].out.bo # NoBreakout
               THEN /\ Return(Broke(cond.c[1].out.bo))
                    /\ UNCHANGED <<i, str>>
               ELSE /\ str' = cond.c[1].out.val
                    /\ i' = 1
                    /\ cpc' = "loop"
                    /\ UNCHANGED <<cres, res>>

\* Condition.Run, lines 26-36: one test of the loop, and the iteration or the
\* return that follows it.  Go's c[i] is c[i + 1] here.
RunLoop ==
  /\ UNCHANGED <<syntaxVars, libVars>>
  /\ cpc = "loop"
  /\ UNCHANGED <<t, outs, cond, str>>
  /\ IF i < Len(cond.c)
       THEN /\ ran' = Append(ran, i + 1)
            /\ IF cond.c[i + 1].out.bo # NoBreakout
                 THEN /\ Return(Broke(cond.c[i + 1].out.bo))
                      /\ i' = i
               ELSE IF Differs(cond.c[i + 1].out.val, str)
                 THEN /\ Return(Returned(emptyValue))
                      /\ i' = i
               ELSE /\ i' = i + 1
                    /\ UNCHANGED <<cpc, cres, res>>
       ELSE /\ Return(Returned(NewValueBool(TRUE)))
            /\ UNCHANGED <<i, ran>>

\* A NotCondition.Run that forgets the negation.
NotResultNoNegation(r) ==
  IF r.bo # NoBreakout THEN Broke(r.bo)
  ELSE Returned(NewValueBool(ValueBool(r.val)))

\* NotCondition.Run, lines 48-51, on what Condition(n).Run returned.
NotResult(r) ==
  IF r.bo # NoBreakout THEN Broke(r.bo)
  ELSE Returned(NewValueBool(~ValueBool(r.val)))

NotRun ==
  /\ UNCHANGED <<syntaxVars, libVars>>
  /\ cpc = "NotRun"
  /\ res' = NotResult(cres)
  /\ cpc' = "done"
  /\ UNCHANGED <<t, outs, cond, i, str, ran, cres>>

NextCond ==
  \/ FromTokens
  \/ Run
  \/ RunLoop
  \/ NotRun

(***************************************************************************)
(* StdMath.Factorial and StdMath.Mod (src/std_math.go).  A Number is exact, *)
(* the rational n/d in lowest terms with d = 1 for an integer, or a float. *)
(* A float64 is kept as what it was computed from: the value n/d, the      *)
(* Gamma function of n/d, an infinity or a NaN.  The arguments are exact   *)
(* and have d = 1 or d = 2, which a float64 holds exactly.                 *)
(***************************************************************************)
MaxArg == 8

FactorialLimit == 65536

\* The arguments at and above Factorial's limit.
LargeArgs == { FactorialLimit, FactorialLimit + 1 }

NewNumberInt(k) == [kind |-> "exact", fn |-> "value", n |-> k, d |-> 1]

NewNumberBig(k) == [kind |-> "exact", fn |-> "value", n |-> k, d |-> 1]

NewNumberFloat(f) == [kind |-> "float", fn |-> f.fn, n |-> f.n, d |-> f.d]

NilNumber == [kind |-> "nil", fn |-> "value", n |-> 0, d |-> 1]

\* Number.Int: the integer of an integral Number, nil of any other.
IntOf(x) == [isNil |-> x.d # 1, v |-> x.n]

\* Number.Float.
FloatOf(x) == [fn |-> "value", n |-> x.n, d |-> x.d]

\* CompareNumbers of two exact Numbers: -1, 0 or 1.
CompareNumbers(a, b) ==
  IF a.n * b.d < b.n * a.d THEN -1
  ELSE IF a.n * b.d > b.n * a.d THEN 1
  ELSE 0

\* math.Gamma: +Inf at 0 and above 171, NaN at a negative integer.
Gamma(f) ==
  IF f.d = 1 /\ f.n < 0 THEN [fn |-> "NaN", n |-> 0, d |-> 1]
  ELSE IF f.n = 0 \/ f.n > 171 * f.d THEN [fn |-> "Inf", n |-> 0, d |-> 1]
  ELSE [fn |-> "Gamma", n |-> f.n, d |-> f.d]

\* The integers and the halves of magnitude at most MaxArg.
Numbers ==
  { NewNumberInt(k) : k \in (-MaxArg)..MaxArg }
    \cup { [kind |-> "exact", fn |-> "value", n |-> 2 * k + 1, d |-> 2] :
             k \in (-MaxArg)..(MaxArg - 1) }

NumberResult(x) == [val |-> x, err |-> "", panic |-> ""]

ErrorResult(e) == [val |-> NilNumber, err |-> e, panic |-> ""]

PanicResult(e) == [val |-> NilNumber, err |-> "", panic |-> e]

NoResult == [val |-> NilNumber, err |-> "", panic |-> ""]

MathInit ==
  /\ mpc \in {"Factorial", "Mod"}
  /\ IF mpc = "Factorial"
       THEN /\ fn \in Numbers \cup { NewNumberInt(k) : k \in LargeArgs }
            /\ num = NilNumber
            /\ modulus = NilNumber
       ELSE /\ fn = NilNumber
            /\ num \in Numbers
            /\ modulus \in Numbers
  /\ fi = 0
  /\ fres = 0
  /\ mret = NoResult

\* Factorial, lines 93-108: up to the loop.
Factorial ==
  /\ UNCHANGED <<syntaxVars, condVars, stringVars>>
  /\ mpc = "Factorial"
  /\ UNCHANGED <<fn, num, modulus>>
  /\ IF IntOf(fn).isNil \/ CompareNumbers(fn, NewNumberInt(0)) < 0
       THEN LET ans == Gamma(FloatOf(fn))
            IN /\ mret' = IF ans.fn \in {"NaN", "Inf"}
                            THEN ErrorResult("cannot compute gamma result")
                            ELSE NumberResult(NewNumberFloat(ans))
               /\ mpc' = "done"
               /\ UNCHANGED <<fi, fres>>
     ELSE IF CompareNumbers(fn, NewNumberInt(FactorialLimit)) >= 0
       THEN /\ mret' = ErrorResult("argument too big")
            /\ mpc' = "done"
            /\ UNCHANGED <<fi, fres>>
     ELSE /\ fres' = 1
          /\ fi' = 2
          /\ mpc' = "loop"
          /\ UNCHANGED mret

\* Factorial, lines 109-113: one test of the loop, and the iteration or the
\* return that follows it.  int(n.Float()) of an integer is the integer.
FactorialLoop ==
  /\ UNCHANGED <<syntaxVars, condVars, stringVars>>
  /\ mpc = "loop"
  /\ UNCHANGED <<fn, num, modulus>>
  /\ IF fi < FloatOf(fn).n
       THEN /\ fres' = fres * fi
            /\ fi' = fi + 1
            /\ UNCHANGED <<mpc, mret>>
       ELSE /\ mret' = NumberResult(NewNumberBig(fres))
            /\ mpc' = "done"
            /\ UNCHANGED <<fi, fres>>

\* math.Floor(a / b) of two integers held as floats, b not 0.
FloorQuotient(a, b) == IF b > 0 THEN a \div b ELSE (0 - a) \div (0 - b)

\* Lines 152-155, f1 and f2 in halves: f1 - Floor(f1 / f2) * f2, a NaN when
\* f2 is 0 (f1 / f2 is then an infinity or a NaN).
FloatMod(f1, f2) ==
  LET a == f1.n * (2 \div f1.d)
      b == f2.n * (2 \div f2.d)
  IN IF b = 0 THEN [fn |-> "NaN", n |-> 0, d |-> 1]
     ELSE [fn |-> "value", n |-> a - FloorQuotient(a, b) * b, d |-> 2]

\* big.Int.Mod, the Euclidean modulus: a division-by-zero run-time panic
\* when y is 0.
BigMod(x, y) ==
  IF y = 0 THEN PanicResult("division by zero")
  ELSE NumberResult(NewNumberBig(x % (IF y < 0 THEN 0 - y ELSE y)))

\* Mod, lines 148-161.
Mod ==
  /\ UNCHANGED <<syntaxVars, condVars, stringVars>>
  /\ mpc = "Mod"
  /\ UNCHANGED <<fn, fi, fres, num, modulus>>
  /\ mret' = IF IntOf(num).isNil \/ IntOf(modulus).isNil
               THEN NumberResult(
                      NewNumberFloat(FloatMod(FloatOf(num), FloatOf(modulus))))
               ELSE BigMod(IntOf(num).v, IntOf(modulus).v)
  /\ mpc' = "done"

NextMath ==
  \/ Factorial
  \/ FactorialLoop
  \/ Mod

(***************************************************************************)
(* StdString.Escape and StdString.Unescape (src/std_math.go), on strings   *)
(* of at most MaxString runes that matter to them.                         *)
(***************************************************************************)
MaxString == 4

ChNewline == 10

ChLetterN == 110

\* a backslash, 'n', a newline, 'a'
StringRunes == { ChBackslash, ChLetterN, ChNewline, 97 }

RECURSIVE Replace(_, _, _)
\* strings.Replace(s, old, new, -1), old not empty: the occurrences of old
\* that do not overlap, from the left.
Replace(s, old, new) ==
  IF Len(s) < Len(old) THEN s
  ELSE IF SubSeq(s, 1, Len(old)) = old
    THEN new \o Replace(SubSeq(s, Len(old) + 1, Len(s)), old, new)
  ELSE <<Head(s)>> \o Replace(Tail(s), old, new)

Escape(s) ==
  Replace(Replace(s, <<ChBackslash>>, <<ChBackslash, ChBackslash>>),
          <<ChNewline>>, <<ChBackslash, ChLetterN>>)

Unescape(s) ==
  Replace(Replace(s, <<ChBackslash, ChLetterN>>, <<ChNewline>>),
          <<ChBackslash, ChBackslash>>, <<ChBackslash>>)

StringInit ==
  /\ arg \in StringsUpTo(StringRunes, MaxString)
  /\ escaped = <<>>
  /\ unescaped = <<>>
  /\ spc = "Escape"

CallEscape ==
  /\ UNCHANGED <<syntaxVars, condVars, mathVars>>
  /\ spc = "Escape"
  /\ escaped' = Escape(arg)
  /\ spc' = "Unescape"
  /\ UNCHANGED <<arg, unescaped>>

CallUnescape ==
  /\ UNCHANGED <<syntaxVars, condVars, mathVars>>
  /\ spc = "Unescape"
  /\ unescaped' = Unescape(escaped)
  /\ spc' = "done"
  /\ UNCHANGED <<arg, escaped>>

NextString ==
  \/ CallEscape
  \/ CallUnescape

(***************************************************************************)
(* The specifications: the parser on one logical line, and the evaluation  *)
(* of one condition.  Each leaves the other's variables idle.              *)
(***************************************************************************)
SyntaxIdle ==
  /\ rd = [line |-> <<>>, num |-> 0, err |-> ErrNone]
  /\ buffer = <<>>
  /\ sl = NilLine
  /\ stack = <<>>
  /\ pc = "idle"
  /\ err = ErrNone
  /\ raw = <<>>

CondIdle ==
  /\ t = <<>>
  /\ outs = <<>>
  /\ cond = NoCond
  /\ cpc = "idle"
  /\ i = 0
  /\ str = ""
  /\ ran = <<>>
  /\ cres = Returned("")
  /\ res = Returned("")

MathIdle ==
  /\ fn = NilNumber
  /\ fi = 0
  /\ fres = 0
  /\ num = NilNumber
  /\ modulus = NilNumber
  /\ mpc = "idle"
  /\ mret = NoResult

StringIdle ==
  /\ arg = <<>>
  /\ escaped = <<>>
  /\ unescaped = <<>>
  /\ spc = "idle"

LibIdle == MathIdle /\ StringIdle

Init == SyntaxInit /\ CondIdle /\ LibIdle

Spec == Init /\ [][Next]_vars

InitCond == CondInit /\ SyntaxIdle /\ LibIdle

SpecCond == InitCond /\ [][NextCond]_vars

InitMath == MathInit /\ SyntaxIdle /\ CondIdle /\ StringIdle

SpecMath == InitMath /\ [][NextMath]_vars

InitString == StringInit /\ SyntaxIdle /\ CondIdle /\ MathIdle

SpecString == InitString /\ [][NextString]_vars

(***************************************************************************)
(* The parser on lines made to exercise quoted strings and the escape      *)
(* decoder: a quote followed by at most MaxBody runes that matter to       *)
(* readQuotedString, and a backslash followed by an escape body, bare or   *)
(* quoted, closed or not.                                                  *)
(***************************************************************************)
MaxBody == 4

\* the two quotes, a backslash, 'a', a space, the parentheses, '1'
QuoteRunes ==
  { ChDQuote, ChSQuote, ChBackslash, 97, ChSpace, ChLParen, ChRParen, 49 }

QuoteLines ==
  { <<q>> \o b : q \in {ChDQuote, ChSQuote},
                 b \in StringsUpTo(QuoteRunes, MaxBody) }

\* '0', '8', 'd', 'F' and, not a hexadecimal digit, 'g'
HexSample == { 48, 56, 100, 70, 103 }

\* The first four digits of a \U escape: "0000", "0010", "0011", "8000".
HexPrefixes ==
  { <<48, 48, 48, 48>>, <<48, 48, 49, 48>>, <<48, 48, 49, 49>>,
    <<56, 48, 48, 48>> }

\* The runes of the switch of readEscapeSequence that stand alone, and runes
\* of its default case: '8', '9', 'q', 'A', '{', U+00E9, and the digits
\* U+0660 and U+FF10.
SingleRunes ==
  { ChLParen, ChRParen, 63, ChSQuote, ChDQuote, ChSpace, ChBackslash,
    97, 98, 102, 110, 114, 116, 118,
    56, 57, 113, 65, ChLBrace, 233, 1632, 65296 }

\* What may follow a backslash: a single rune, 'x', 'u' or 'U' and digits,
\* or one to three octal digits.
EscapeBodies ==
  { <<r>> : r \in SingleRunes }
    \cup { <<120>> \o h : h \in StringsUpTo(HexSample, 2) }
    \cup { <<117>> \o h : h \in StringsUpTo(HexSample, 4) }
    \cup { <<85>> \o p \o h : p \in HexPrefixes \cup { <<>> },
                             h \in StringsUpTo(HexSample, 4) }
    \cup UNION { Strings(48..55, k) : k \in 1..3 }

\* What may follow the escape body: nothing, '8' or '7'.
EscapeTails == { <<>>, <<56>>, <<55>> }

\* The token an escape is read in: bare, quoted, or quoted and not closed.
EscapeFrames ==
  { << <<>>, <<>> >>, << <<ChDQuote>>, <<ChDQuote>> >>,
    << <<ChSQuote>>, <<ChSQuote>> >>, << <<ChDQuote>>, <<>> >> }

EscapeLines ==
  { f[1] \o <<ChBackslash>> \o e \o a \o f[2] :
      f \in EscapeFrames, e \in EscapeBodies, a \in EscapeTails }

InitLex ==
  /\ rd \in [line : QuoteLines \cup EscapeLines, num : {1}, err : {ErrNone}]
              \cup { [line |-> <<>>, num |-> 0, err |-> ErrEOF] }
  /\ buffer = <<>>
  /\ sl = NilLine
  /\ stack = <<>>
  /\ pc = "ReadSyntaxLine"
  /\ err = ErrNone
  /\ raw = <<>>
  /\ CondIdle
  /\ LibIdle

SpecLex == InitLex /\ [][Next]_vars


(***************************************************************************)
(* The claims about the condition evaluator, checked under SpecCond.       *)
(***************************************************************************)
\* The strings of the operands of cond, and whether every operand returns a
\* value.
OperandStrings == [k \in 1..Len(cond.c) |-> cond.c[k].out.val]

AllOperandsSucceed ==
  \A k \in 1..Len(cond.c) : cond.c[k].out.bo = NoBreakout

\* The truth table of a condition over the strings ss.
Truth(ss) ==
  IF Len(ss) = 0 THEN TRUE
  ELSE IF Len(ss) = 1 THEN ss[1] # ""
  ELSE \A k \in 2..Len(ss) : ss[k] = ss[1]

ConditionRunReturned == cpc \in {"NotRun", "done"}

\* C1: once Condition.Run has returned over operands that all succeed, it
\* has returned a value, which is truthy exactly when: there is no operand;
\* or there is one and its string is not empty; or there are two or more and
\* every operand's string equals the first one's.
C1_ConditionTruth ==
  (ConditionRunReturned /\ AllOperandsSucceed) =>
    /\ cres.bo = NoBreakout
    /\ ValueBool(cres.val) = Truth(OperandStrings)

\* Condition over "a", "a", "b" has returned false.
C1_Witness ==
  /\ cpc = "done"
  /\ ~cond.neg
  /\ OperandStrings = <<"a", "a", "b">>
  /\ AllOperandsSucceed
  /\ ran = <<1, 2, 3>>
  /\ res = Returned("")

\* C2: once NotCondition.Run has returned, it has returned the Breakout of
\* Condition.Run over the same operands if there was one, and otherwise the
\* boolean complement of the value Condition.Run returned; over operands
\* that all succeed that is the complement of the truth table, so false over
\* no operand and, over one operand, true iff its string is empty.
C2_NotComplement ==
  (cpc = "done" /\ cond.neg) =>
    /\ res.bo = cres.bo
    /\ cres.bo = NoBreakout =>
         /\ res.val \in {NewValueBool(TRUE), NewValueBool(FALSE)}
         /\ ValueBool(res.val) = ~ValueBool(cres.val)
    /\ AllOperandsSucceed =>
         /\ res.bo = NoBreakout
         /\ ValueBool(res.val) = ~Truth(OperandStrings)

\* NotCondition over the one operand "" has returned true.
C2_Witness ==
  /\ cpc = "done"
  /\ cond.neg
  /\ OperandStrings = <<"">>
  /\ AllOperandsSucceed
  /\ cres = Returned("")
  /\ res = Returned("true")

\* C3: the Runnable that ConditionFromTokens returns is a NotCondition iff
\* the token list is not empty and its first token is `not`; a NotCondition
\* has len(t)-1 operands, made from the tokens 2..n in their order, and a
\* Condition has len(t) operands, made from all the tokens in their order.
C3_FromTokens ==
  cpc # "ConditionFromTokens" =>
    /\ cond.neg = (Len(t) > 0 /\ t[1].String = "not")
    /\ IF cond.neg
         THEN /\ Len(cond.c) = Len(t) - 1
              /\ \A k \in 1..Len(cond.c) :
                   cond.c[k] = Runnable(t[k + 1], outs[k + 1])
         ELSE /\ Len(cond.c) = Len(t)
              /\ \A k \in 1..Len(cond.c) : cond.c[k] = Runnable(t[k], outs[k])

\* From the tokens not, not, a: a NotCondition over the operands not, a.
C3_Witness ==
  /\ cpc = "Run"
  /\ t = <<[String |-> "not"], [String |-> "not"], [String |-> "a"]>>
  /\ cond.neg
  /\ Len(cond.c) = 2
  /\ cond.c[1].token.String = "not"
  /\ cond.c[2].token.String = "a"


(***************************************************************************)
(* The claims about the parser, checked under Spec.                        *)
(***************************************************************************)
Succeeded == pc = "done" /\ err = ErrNone

\* The token that the step appended to the innermost list of tokens.
Appended(tokens, frames) ==
  IF Len(frames) = 0 THEN tokens[Len(tokens)]
  ELSE frames[Len(frames)][Len(frames[Len(frames)])]

\* The runes the step consumed.
Consumed(before, after) == SubSeq(before, 1, Len(before) - Len(after))

HasRune(text, r) == \E k \in 1..Len(text) : text[k] = r

\* C4: every step that appends a token appends one whose Bare is true iff
\* it is a literal that was read as an unquoted token (its first rune is no
\* quote) with no backslash escape in the runes read for it; a quoted token,
\* a token with an escape and a group token have Bare false.
C4_Bare ==
  [][ (pc \in {"readNextToken", "afterToken"} /\ pc' = "afterToken") =>
        LET token == Appended(sl'.Tokens, stack')
        IN token.Bare =
             /\ ~token.IsCommand
             /\ Head(buffer) \notin {ChDQuote, ChSQuote}
             /\ ~HasRune(Consumed(buffer, buffer'), ChBackslash) ]_vars

\* The line \( parsed to one literal "(" that is not bare.
C4_Witness ==
  /\ Succeeded
  /\ rd.line = <<ChBackslash, ChLParen>>
  /\ sl.Tokens = <<Literal(<<ChLParen>>, FALSE)>>

\* The first token after a leading bare `}` has been stripped, if any.
AfterClose(tokens) ==
  IF tokens # <<>> /\ ~tokens[1].IsCommand /\ tokens[1].Bare
     /\ tokens[1].Text = <<ChRBrace>>
    THEN Tail(tokens) ELSE tokens

KeywordTexts == { BlockInitiatingKeywords[k] : k \in 1..Len(BlockInitiatingKeywords) }

StartsWithKeyword(tokens) ==
  /\ tokens # <<>>
  /\ ~tokens[1].IsCommand
  /\ tokens[1].Bare
  /\ tokens[1].Text \in KeywordTexts

EndsWithBareOpenBrace(tokens) ==
  /\ tokens # <<>>
  /\ ~tokens[Len(tokens)].IsCommand
  /\ tokens[Len(tokens)].Bare
  /\ tokens[Len(tokens)].Text = <<ChLBrace>>

\* C5: of a line that lexed, whose tokens processCurlyBraces has processed:
\* if the first token after a leading bare `}` is a bare keyword, the parse
\* succeeded with BlockOpen = true when the last token is a bare `{` and
\* failed with the missing-open-curly-brace error otherwise; if it is not a
\* bare keyword, BlockOpen is false.
C5_BlockOpen ==
  (pc = "done" /\ raw # <<>>) =>
    IF StartsWithKeyword(AfterClose(raw))
      THEN IF EndsWithBareOpenBrace(AfterClose(raw))
             THEN err = ErrNone /\ sl.BlockOpen
             ELSE err = ErrMissingOpenCurlyBrace /\ ~sl.BlockOpen
      ELSE ~sl.BlockOpen

Bit(b) == IF b THEN 1 ELSE 0

C7_TokensFrame ==
  Succeeded =>
    /\ sl.Tokens = SubSeq(raw, 1 + Bit(sl.BlockClose),
                          Len(raw) - Bit(sl.BlockOpen))
    /\ sl.BlockClose => raw[1] = Literal(<<ChRBrace>>, TRUE)
    /\ sl.BlockOpen =>
         /\ ~raw[Len(raw)].IsCommand
         /\ raw[Len(raw)].Text = <<ChLBrace>>
    /\ sl.Number = rd.num

\* The line `if a {` parsed to BlockOpen and the tokens if, a.
C7_Witness ==
  /\ Succeeded
  /\ rd.line = <<105, 102, ChSpace, 97, ChSpace, ChLBrace>>
  /\ sl = [BlockOpen |-> TRUE, BlockClose |-> FALSE,
           Tokens |-> <<Literal(<<105, 102>>, TRUE), Literal(<<97>>, TRUE)>>,
           Number |-> 1]


\* A line with no quote and no backslash, in which every `(` starts a token:
\* it is the first rune or follows whitespace or another `(`.
PlainLine(line) ==
  /\ \A k \in 1..Len(line) : line[k] \notin {ChDQuote, ChSQuote, ChBackslash}
  /\ \A k \in 2..Len(line) :
       line[k] = ChLParen => (IsSpace(line[k - 1]) \/ line[k - 1] = ChLParen)

RECURSIVE DropSpaces(_)
DropSpaces(text) ==
  IF text # <<>> /\ IsSpace(Head(text)) THEN DropSpaces(Tail(text)) ELSE text

RECURSIVE Normalise(_)
\* The text with each run of whitespace made one space, and with no
\* whitespace after a `(`, before a `)` or at the end.
Normalise(text) ==
  IF text = <<>> THEN <<>>
  ELSE IF IsSpace(Head(text))
    THEN LET rest == DropSpaces(text)
         IN IF rest = <<>> \/ Head(rest) = ChRParen THEN Normalise(rest)
            ELSE <<ChSpace>> \o Normalise(rest)
  ELSE IF Head(text) = ChLParen
    THEN <<ChLParen>> \o Normalise(DropSpaces(Tail(text)))
  ELSE <<Head(text)>> \o Normalise(Tail(text))

RECURSIVE PrintTokens(_)
\* The tokens written out with one space between them, a literal as its
\* text and a group as its children between parentheses.
PrintTokens(tokens) ==
  IF tokens = <<>> THEN <<>>
  ELSE LET first == IF tokens[1].IsCommand
                      THEN <<ChLParen>> \o PrintTokens(tokens[1].Command)
                           \o <<ChRParen>>
                      ELSE tokens[1].Text
       IN IF Len(tokens) = 1 THEN first
          ELSE first \o <<ChSpace>> \o PrintTokens(Tail(tokens))

RECURSIVE GroupsNotEmpty(_)
GroupsNotEmpty(tokens) ==
  \A k \in 1..Len(tokens) :
    tokens[k].IsCommand =>
      /\ Len(tokens[k].Command) >= 1
      /\ GroupsNotEmpty(tokens[k].Command)

\* C8: the lexed tokens of a line that parsed hold no group without a child,
\* and when the line is plain they are the tokens and groups its text spells:
\* written out again they give the line's text with its whitespace
\* normalised, so each group holds exactly the tokens between its `(` and
\* the matching `)`, in their order, nested groups likewise.
C8_Groups ==
  Succeeded =>
    /\ GroupsNotEmpty(raw)
    /\ PlainLine(rd.line) => PrintTokens(raw) = Normalise(rd.line)

\* The line `(a (if))` parsed to one group of a and a group of if.
C8_Witness ==
  /\ Succeeded
  /\ rd.line = <<ChLParen, 97, ChSpace, ChLParen, 105, 102, ChRParen,
                 ChRParen>>
  /\ sl.Tokens =
       << NestedToken(<< Literal(<<97>>, TRUE),
                         NestedToken(<< Literal(<<105, 102>>, TRUE) >>) >>) >>

\* C9 as claimed: a parse that failed with the input exhausted and a group
\* still open failed with the missing-close-paren error.
C9_ExhaustedInGroup ==
  (pc = "done" /\ err # ErrNone /\ Depth > 0 /\ buffer = <<>>) =>
    err = ErrMissingCloseParen

\* C9: where a group expects a token, a `)` with no token read for the group
\* fails with the empty-parens error and the end of the input fails with the
\* missing-close-paren error, at any depth; where a group has read a token,
\* the end of the input leads to the point where it expects the next one;
\* where parseLine expects a token, a `)` fails with the
\* unexpected-close-paren error; and that error is never returned for a
\* `)` read for a group.
C9_GroupErrors ==
  [][ /\ ( /\ pc = "readNextToken" /\ Depth > 0 /\ buffer # <<>>
           /\ Head(buffer) = ChRParen /\ stack[Depth] = <<>> )
        => (pc' = "done" /\ err' = ErrEmptyParens)
      /\ (pc = "readNextToken" /\ Depth > 0 /\ buffer = <<>>)
        => (pc' = "done" /\ err' = ErrMissingCloseParen)
      /\ (pc = "afterToken" /\ Depth > 0 /\ buffer = <<>>)
        => (pc' = "readNextToken" /\ buffer' = <<>> /\ Depth' = Depth)
      /\ ( /\ pc = "readNextToken" /\ Depth = 0 /\ buffer # <<>>
           /\ Head(buffer) = ChRParen )
        => (pc' = "done" /\ err' = ErrUnexpectedCloseParen)
      /\ err' = ErrUnexpectedCloseParen
        => (pc = "readNextToken" /\ Depth = 0 /\ Head(buffer) = ChRParen)
      /\ err' = ErrEmptyParens
        => (Depth > 0 /\ stack[Depth] = <<>> /\ Head(buffer) = ChRParen) ]_vars

\* The line `((a` failed with the missing-close-paren error, two groups open.
C9_Witness ==
  /\ pc = "done"
  /\ rd.line = <<ChLParen, ChLParen, 97>>
  /\ Depth = 2
  /\ buffer = <<>>
  /\ err = ErrMissingCloseParen

\* C10: after a token, in parseLine and in a group alike, a rune that is not
\* whitespace fails the parse with the missing-whitespace error, unless it is
\* the `)` that closes the group; the end of the input, whitespace and that
\* `)` do not fail it; and the error is returned nowhere else.
C10_Whitespace ==
  [][ /\ ( /\ pc = "afterToken" /\ buffer # <<>>
           /\ ~IsSpace(Head(buffer))
           /\ ~(Depth > 0 /\ Head(buffer) = ChRParen) )
        => (pc' = "done" /\ err' = ErrMissingWhitespace /\ sl' = NilLine)
      /\ ( /\ pc = "afterToken"
           /\ \/ buffer = <<>>
              \/ IsSpace(Head(buffer))
              \/ Depth > 0 /\ Head(buffer) = ChRParen )
        => (pc' # "done" /\ err' = ErrNone)
      /\ err' = ErrMissingWhitespace => pc = "afterToken" ]_vars

\* The line `(""a)` failed with the missing-whitespace error inside the
\* group, after the quoted token.
C10_Witness ==
  /\ pc = "done"
  /\ rd.line = <<ChLParen, ChDQuote, ChDQuote, 97, ChRParen>>
  /\ Depth = 1
  /\ buffer = <<97, ChRParen>>
  /\ err = ErrMissingWhitespace

(***************************************************************************)
(* The claims about quoted strings and escapes, checked under SpecLex.     *)
(***************************************************************************)

\* The index of the first rune of b that is one of rs, 0 if there is none.
FirstOf(b, rs) ==
  IF \E k \in 1..Len(b) : b[k] \in rs
    THEN CHOOSE k \in 1..Len(b) :
           b[k] \in rs /\ \A j \in 1..(k - 1) : b[j] \notin rs
    ELSE 0

RECURSIVE Enclosed(_, _)
\* What a quoted token that opened with q encloses in b, the runes after the
\* opening quote: the runes up to the first q outside any escape sequence,
\* each escape replaced by the rune the decoder returns for it.  err is the
\* decoder's error if it fails on an escape, and the missing-terminator
\* error if b ends first.
Enclosed(b, q) ==
  LET k == FirstOf(b, {q, ChBackslash})
  IN IF k = 0
       THEN [str |-> <<>>, err |-> ErrMissingEndQuote, rest |-> <<>>]
     ELSE IF b[k] = q
       THEN [str |-> SubSeq(b, 1, k - 1), err |-> ErrNone,
             rest |-> SubSeq(b, k + 1, Len(b))]
     ELSE LET seq == readEscapeSequence(SubSeq(b, k + 1, Len(b)))
              more == Enclosed(seq.rest, q)
          IN IF seq.err # ErrNone
               THEN [str |-> <<>>, err |-> seq.err, rest |-> seq.rest]
             ELSE IF more.err # ErrNone THEN more
             ELSE [str |-> SubSeq(b, 1, k - 1) \o <<WriteRune(seq.r)>>
                             \o more.str,
                   err |-> ErrNone, rest |-> more.rest]

RECURSIVE Unterminated(_, _)
\* b, the runes after an opening quote q, ends before a q that no backslash
\* precedes: a backslash takes the rune after it with it.
Unterminated(b, q) ==
  IF b = <<>> THEN TRUE
  ELSE IF Head(b) = q THEN FALSE
  ELSE IF Head(b) = ChBackslash
    THEN Len(b) = 1 \/ Unterminated(Tail(Tail(b)), q)
  ELSE Unterminated(Tail(b), q)

\* C11 as the specification states it, for the end of the input: whenever
\* the input ends before the closing quote, the parse fails with the
\* missing-string-terminator error.
C11_UnterminatedQuote ==
  [][ ( /\ pc = "readNextToken" /\ buffer # <<>>
        /\ Head(buffer) \in {ChDQuote, ChSQuote}
        /\ Unterminated(Tail(buffer), Head(buffer)) )
      => (pc' = "done" /\ err' = ErrMissingEndQuote) ]_vars

\* C11: a token that starts with a quote q is read up to the first q outside
\* any escape sequence and is appended as a literal, not bare, of the
\* enclosed runes with every escape replaced by the rune the decoder returns
\* for it, the rest of the input staying unread; the other quote, whitespace
\* and parentheses are ordinary text inside; the parse fails with the
\* decoder's error if the decoder fails on an escape, and with the
\* missing-string-terminator error if the input ends, outside any escape,
\* before the closing quote; and enclosed runes that hold neither quote give
\* the same text between quotes of the other style.
C11_Quoted ==
  [][ ( /\ pc = "readNextToken" /\ buffer # <<>>
        /\ Head(buffer) \in {ChDQuote, ChSQuote} )
      => LET q == Head(buffer)
             other == IF q = ChDQuote THEN ChSQuote ELSE ChDQuote
             e == Enclosed(Tail(buffer), q)
             body == SubSeq(buffer, 2, Len(buffer) - Len(e.rest) - 1)
         IN IF e.err # ErrNone
              THEN pc' = "done" /\ err' = e.err /\ sl' = NilLine
              ELSE /\ pc' = "afterToken"
                   /\ Appended(sl'.Tokens, stack') = Literal(e.str, FALSE)
                   /\ buffer' = e.rest
                   /\ (~HasRune(body, q) /\ ~HasRune(body, other))
                        => Enclosed(body \o <<other>>, other) =
                             [str |-> e.str, err |-> ErrNone, rest |-> <<>>]
     ]_vars

\* The line '\'"' parsed to one literal of a single and a double quote.
C11_Witness ==
  /\ Succeeded
  /\ rd.line = <<ChSQuote, ChBackslash, ChSQuote, ChDQuote, ChSQuote>>
  /\ sl.Tokens = <<Literal(<<ChSQuote, ChDQuote>>, FALSE)>>

\* The escapes as the specification lists them.  The runes that stand for
\* themselves after a backslash: ( ) ? ' " space and the backslash.
Passthrough ==
  { ChLParen, ChRParen, 63, ChSQuote, ChDQuote, ChSpace, ChBackslash }

\* a b f n r t v: bell, backspace, form feed, newline, carriage return, tab,
\* vertical tab.
LetterCodes ==
  97 :> 7 @@ 98 :> 8 @@ 102 :> 12 @@ 110 :> 10 @@ 114 :> 13 @@ 116 :> 9
    @@ 118 :> 11

IsHexDigit(r) == r \in (48..57) \cup (97..102) \cup (65..70)

IsOctalDigit(r) == r \in 48..55

DigitValue(r) ==
  IF r \in 48..57 THEN r - 48 ELSE IF r \in 97..102 THEN r - 87 ELSE r - 55

RECURSIVE NumberIn(_, _)
\* The number that the digits s write in a base.
NumberIn(s, base) ==
  IF s = <<>> THEN 0
  ELSE NumberIn(SubSeq(s, 1, Len(s) - 1), base) * base
         + DigitValue(s[Len(s)])

\* The number of digits, 4 for 'u' and the like, that follow a letter.
HexLength == 120 :> 2 @@ 117 :> 4 @@ 85 :> 8

\* A code point that a text can hold: in 0..10FFFF and not a surrogate.
IsScalar(n) == n \in 0..1114111 /\ n \notin 55296..57343

NoEscape == [ok |-> FALSE, point |-> 0, len |-> 0]

\* The valid escape sequence at the start of b, the runes after a backslash:
\* its code point and its length, ok being false if there is none.  An octal
\* sequence is the longest run of at most three octal digits.
SpecEscape(b) ==
  IF b = <<>> THEN NoEscape
  ELSE IF b[1] \in Passthrough THEN [ok |-> TRUE, point |-> b[1], len |-> 1]
  ELSE IF b[1] \in DOMAIN LetterCodes
    THEN [ok |-> TRUE, point |-> LetterCodes[b[1]], len |-> 1]
  ELSE IF b[1] \in DOMAIN HexLength
    THEN LET n == HexLength[b[1]]
             digits == SubSeq(b, 2, n + 1)
         IN IF /\ Len(b) > n
               /\ \A k \in 1..n : IsHexDigit(digits[k])
               /\ \A k \in 1..(n - 6) : digits[k] = ChZero
               /\ IsScalar(NumberIn(digits, 16))
              THEN [ok |-> TRUE, point |-> NumberIn(digits, 16),
                    len |-> n + 1]
              ELSE NoEscape
  ELSE IF IsOctalDigit(b[1])
    THEN LET n == CHOOSE k \in 1..3 :
                    /\ k <= Len(b)
                    /\ \A j \in 1..k : IsOctalDigit(b[j])
                    /\ (k = 3 \/ k = Len(b) \/ ~IsOctalDigit(b[k + 1]))
         IN [ok |-> TRUE, point |-> NumberIn(SubSeq(b, 1, n), 8), len |-> n]
  ELSE NoEscape

\* The runes that neither end a bare token nor start an escape.
Plain(text) ==
  \A k \in 1..Len(text) :
    ~IsSpace(text[k]) /\ text[k] \notin {ChRParen, ChBackslash}

\* C12: a bare token that is a backslash, a valid escape sequence and plain
\* runes is read as the literal of the code point the sequence stands for,
\* followed by those runes: a passthrough rune stands for itself, a letter
\* code for its control character, x, u and U with 2, 4 and 8 hexadecimal
\* digits for the code point of that value, and one to three octal digits
\* for the code point of their base-8 value, from 0 to 777, the rune after
\* them staying unread by the decoder.
C12_Decode ==
  [][ ( /\ pc = "readNextToken" /\ buffer # <<>>
        /\ Head(buffer) = ChBackslash
        /\ SpecEscape(Tail(buffer)).ok
        /\ Plain(SubSeq(buffer, 2 + SpecEscape(Tail(buffer)).len,
                        Len(buffer))) )
      => LET e == SpecEscape(Tail(buffer))
         IN /\ pc' = "afterToken"
            /\ Appended(sl'.Tokens, stack').Text =
                 <<e.point>> \o SubSeq(buffer, 2 + e.len, Len(buffer))
            /\ buffer' = <<>> ]_vars

\* The token about to be read starts with an escape: a backslash, or a
\* quote and a backslash.
StartsWithEscape ==
  /\ pc = "readNextToken"
  /\ buffer # <<>>
  /\ \/ Head(buffer) = ChBackslash
     \/ /\ Head(buffer) \in {ChDQuote, ChSQuote}
        /\ Len(buffer) > 1
        /\ buffer[2] = ChBackslash

\* The runes after that backslash.
AfterBackslash ==
  IF Head(buffer) = ChBackslash THEN Tail(buffer) ELSE Tail(Tail(buffer))

\* The runes that may follow a backslash: the passthrough runes, the letter
\* codes, x, u, U and the octal digits.
EscapeStarts ==
  Passthrough \cup DOMAIN LetterCodes \cup DOMAIN HexLength \cup (48..55)

\* C13: a backslash followed by a rune that starts no escape fails the parse
\* with the invalid-escape error; a backslash at the end of the input, and
\* an x, u or U escape with fewer than 2, 4 or 8 runes left in the input,
\* fail it with the escape-underflow error; either way no line is returned.
C13_Failures ==
  [][ StartsWithEscape =>
        LET b == AfterBackslash
        IN /\ (b # <<>> /\ b[1] \notin EscapeStarts)
             => (pc' = "done" /\ err' = ErrInvalidEscape /\ sl' = NilLine)
           /\ ( \/ b = <<>>
                \/ /\ b[1] \in DOMAIN HexLength
                   /\ Len(b) - 1 < HexLength[b[1]] )
             => (pc' = "done" /\ err' = ErrEscapeCodeUnderflow
                 /\ sl' = NilLine) ]_vars

(***************************************************************************)
(* The claims about StdMath, checked under SpecMath.                       *)
(***************************************************************************)

RECURSIVE Product(_)
\* 1 * 2 * ... * n
Product(n) == IF n <= 1 THEN 1 ELSE n * Product(n - 1)

FactorialReturned == mpc = "done" /\ fn # NilNumber

\* C14: Factorial of an integer n with 0 <= n < 65536 returns the exact
\* integer n!, the product 1 * 2 * ... * n; of an integer n >= 65536 it
\* fails with "argument too big"; of a negative or non-integral n it returns
\* what the Gamma path gives, a float or the Gamma error.
C14_Factorial ==
  FactorialReturned =>
    IF fn.d = 1 /\ fn.n >= 0
      THEN IF fn.n < 65536
             THEN mret = NumberResult(NewNumberBig(Product(fn.n)))
             ELSE mret = ErrorResult("argument too big")
      ELSE \/ mret = ErrorResult("cannot compute gamma result")
           \/ mret.err = "" /\ mret.val.kind = "float"
                /\ mret.val.fn = "Gamma"

ModReturned == mpc = "done" /\ num # NilNumber

\* C15: Mod of two integers ends with no panic; with a modulus that is not
\* zero it returns an exact integer r with num = q * modulus + r for an
\* integer q and |r| < |modulus|, and with a zero modulus it reports a
\* divide-by-zero failure.
C15_Mod ==
  (ModReturned /\ num.d = 1 /\ modulus.d = 1) =>
    /\ mret.panic = ""
    /\ IF modulus.n # 0
         THEN /\ mret.err = ""
              /\ mret.val.kind = "exact"
              /\ mret.val.d = 1
              /\ (num.n - mret.val.n) % (IF modulus.n < 0 THEN 0 - modulus.n
                                         ELSE modulus.n) = 0
              /\ mret.val.n < (IF modulus.n < 0 THEN 0 - modulus.n
                               ELSE modulus.n)
              /\ 0 - mret.val.n < (IF modulus.n < 0 THEN 0 - modulus.n
                                   ELSE modulus.n)
         ELSE mret.err # ""

(***************************************************************************)
(* The claim about StdString, checked under SpecString.                    *)
(***************************************************************************)

\* C17: Unescape is a left inverse of Escape: Unescape(Escape(s)) = s for
\* every string s.
C17_RoundTrip == spc = "done" => unescaped = arg

(***************************************************************************)
(* The claim about the order of evaluation, checked under SpecCond.        *)
(***************************************************************************)

\* Operand k (operand k - 1 of the source) ends the evaluation of a
\* Condition of two or more operands: it returns a Breakout, or it is not
\* the first and its string differs from the first operand's.
Stops(k) ==
  \/ cond.c[k].out.bo # NoBreakout
  \/ k > 1 /\ cond.c[k].out.val # cond.c[1].out.val

\* The operand at which such an evaluation ends: the first that stops it,
\* the last if none does.
LastRun ==
  IF \E k \in 1..Len(cond.c) : Stops(k)
    THEN CHOOSE k \in 1..Len(cond.c) :
           Stops(k) /\ \A j \in 1..(k - 1) : ~Stops(j)
    ELSE Len(cond.c)

\* What C16 states of a Condition.Run that has returned.
EvaluatedInOrder ==
  /\ Len(cond.c) = 1 => (ran = <<1>> /\ cres = cond.c[1].out)
  /\ Len(cond.c) >= 2 =>
       /\ ran = [k \in 1..LastRun |-> k]
       /\ \A k \in 1..Len(cond.c) :
            cond.c[k].out.bo # NoBreakout =>
              ( (ran[Len(ran)] = k /\ cres = Broke(cond.c[k].out.bo))
                <=> /\ \A j \in 1..(k - 1) : cond.c[j].out.bo = NoBreakout
                    /\ \A j \in 2..(k - 1) :
                         cond.c[j].out.val = cond.c[1].out.val )

\* C16: Condition.Run runs its operands from the left, one after the other
\* and each at most once; with two or more operands it runs none after the
\* first operand that returns a Breakout or, not being the first, returns a
\* string that differs from the first operand's; the Breakout of an operand
\* is the result if and only if every operand before it succeeded and every
\* operand between the first and it returned the first operand's string;
\* with one operand, what the operand returns is returned as it is.
C16_Order ==
  [][ /\ ran' = ran \/ ran' = Append(ran, Len(ran) + 1)
      /\ ConditionRunReturned' => EvaluatedInOrder' ]_vars

\* Of three operands the second returned another string than the first and
\* the third, which would have returned a Breakout, was not run.
C16_Witness ==
  /\ cpc = "done"
  /\ Len(cond.c) = 3
  /\ cond.c[1].out = Returned("a")
  /\ cond.c[2].out = Returned("b")
  /\ cond.c[3].out = Broke("error")
  /\ ran = <<1, 2>>
  /\ res = Returned(emptyValue)

====
